---- MODULE Spec2Model ----
(***************************************************************************)
(* Model of lib/OpskinsManager.js: the inventory cache that every manager  *)
(* instance keeps in memory, the file it is mirrored to, the startup       *)
(* synchronisation and the buy / withdraw operations with their remote     *)
(* calls.  Every callback of the program runs to completion (one           *)
(* JavaScript turn), so every callback is one action.                      *)
(***************************************************************************)
EXTENDS Integers, Sequences, FiniteSets, TLC

(* ------------------------------ bounds --------------------------------- *)
\* item ids are 0..MaxId; 0 stands for the falsy ids (0, "", null, undefined)
MaxId == 2
\* buy / withdraw promises pending at the same time
MaxOps == 2
\* longest list a remote search or a remote inventory fetch returns
MaxList == 2

(* --------------------------- program constants ------------------------- *)
DefaultAppID == 730
DefaultContextID == 2

Managers == {1, 2}
Ops == 1..MaxOps
Ids == 0..MaxId
\* the ids the platform assigns
PlatformIds == 1..MaxId
\* names the platform gives to items and listings
Names == {"A", "B"}
\* names a caller asks buy for: "" is the empty string
RequestNames == {"A", ""}

VARIABLES
    phase,       \* per manager: "Uninitialized", "Loading", "Ready", "Threw"
    inventory,   \* per manager: this.inventory, a sequence of item records
    protoOwner,  \* the manager whose closure (self, inventoryFile) the methods
                 \* on Array.prototype currently hold; 0 before any constructor ran
    files,       \* the inventory directory: file name -> [present, list]
    ops,         \* the pending promises of buy and withdraw
    fetches,     \* per manager: remote getInventory calls issued so far
    last         \* the callback that ran last: its inputs, the saves and remote
                 \* calls it made, and how it settled its promise

vars == <<phase, inventory, protoOwner, files, ops, fetches, last>>

(* ------------------------------ records -------------------------------- *)
\* constructor arguments of the two instances (line 20): distinct api keys,
\* default appID and contextID
apiKey(m) == IF m = 1 THEN "k1" ELSE "k2"
appID(m) == DefaultAppID
contextID(m) == DefaultContextID

\* the canonical four-field record of the cache
Rec(id, name, app, ctx) == [id |-> id, name |-> name, appid |-> app, contextid |-> ctx]

\* an item as the platform or a caller hands it over: the four fields and more
Raw(id, name, app, ctx) ==
    [id |-> id, name |-> name, appid |-> app, contextid |-> ctx, amount |-> 1]

\* the four methods setInventory puts on Array.prototype are enumerable, so a
\* for-in loop over any array visits them after the array's own indices; each
\* is an anonymous function: its name is "" and it has no id
ProtoMethod == [id |-> 0, name |-> "", appid |-> 0, contextid |-> 0, amount |-> 0]
ProtoMethods == <<ProtoMethod, ProtoMethod, ProtoMethod, ProtoMethod>>
ForIn(list) == list \o ProtoMethods

SeqsUpTo(S, n) == UNION { [1..k -> S] : k \in 0..n }

(* --------------------------- the cache methods ------------------------- *)
\* !!item.id
Truthy(id) == id # 0

\* mutation of findByName: the scan starts at the second record
findByName_skipsHead(inv, name) ==
    IF \E i \in 2..Len(inv) : inv[i].name = name
    THEN CHOOSE i \in 2..Len(inv) :
            /\ inv[i].name = name
            /\ \A j \in 2..(i-1) : inv[j].name # name
    ELSE 0

\* mutation of findByName: the scan does not stop at the first match
findByName_lastMatch(inv, name) ==
    IF \E i \in 1..Len(inv) : inv[i].name = name
    THEN CHOOSE i \in 1..Len(inv) :
            /\ inv[i].name = name
            /\ \A j \in (i+1)..Len(inv) : inv[j].name # name
    ELSE 0

\* findByName: position (from 1) of the record the scan stops at, 0 for null
findByName(inv, name) ==
    IF \E i \in 1..Len(inv) : inv[i].name = name
    THEN CHOOSE i \in 1..Len(inv) :
            /\ inv[i].name = name
            /\ \A j \in 1..(i-1) : inv[j].name # name
    ELSE 0

\* findIndexById: position (from 1) of the record the scan stops at, 0 for -1
findIndexById(inv, id) ==
    IF \E i \in 1..Len(inv) : inv[i].id = id
    THEN CHOOSE i \in 1..Len(inv) :
            /\ inv[i].id = id
            /\ \A j \in 1..(i-1) : inv[j].id # id
    ELSE 0

\* mutation of addItemPushes: the id is not looked up
addItemPushes_noIdCheck(inv, item) == Truthy(item.id)

\* the condition of line 97: addItem pushes and saves
addItemPushes(inv, item) == findIndexById(inv, item.id) = 0 /\ Truthy(item.id)

\* the array after addItem(item)
addItem(inv, item) ==
    IF addItemPushes(inv, item)
    THEN Append(inv, Rec(item.id, item.name, item.appid, item.contextid))
    ELSE inv

\* the condition of line 106: removeItem splices and saves
removeItemSplices(inv, id) == findIndexById(inv, id) # 0

\* mutation of removeItem: splice(index) without its count
removeItem_spliceToEnd(inv, id) ==
    IF removeItemSplices(inv, id)
    THEN SubSeq(inv, 1, findIndexById(inv, id) - 1)
    ELSE inv

\* the array after removeItem(id): splice(index, 1)
removeItem(inv, id) ==
    IF removeItemSplices(inv, id)
    THEN LET k == findIndexById(inv, id)
         IN  SubSeq(inv, 1, k-1) \o SubSeq(inv, k+1, Len(inv))
    ELSE inv

(* --------------------------- the file storage -------------------------- *)
\* inventoryFile of manager m (line 53)
inventoryFile(m) ==
    "inventory_" \o apiKey(m) \o "_" \o ToString(appID(m)) \o "_"
                 \o ToString(contextID(m)) \o ".json"

FileNames == { inventoryFile(m) : m \in Managers }

Absent == [present |-> FALSE, list |-> <<>>]
Stored(list) == [present |-> TRUE, list |-> list]

\* FileStorage.read(key)
read(fs, key) == fs[key]

\* FileStorage.save(key, records): the file is overwritten with the records
save(fs, key, list) == [fs EXCEPT ![key] = Stored(list)]

\* the file the installed methods save to: the inventoryFile their closure
\* captured (lines 53, 99, 108), that of the manager constructed last
closureFile(owner) == inventoryFile(owner)

\* the save that follows a push or a splice
saveIf(fs, owner, changed, list) ==
    IF changed THEN save(fs, closureFile(owner), list) ELSE fs

savesIf(owner, changed) == IF changed THEN <<closureFile(owner)>> ELSE <<>>

(* -------------------------------- state -------------------------------- *)
\* the instance the application calls buy, withdraw and the cache methods on;
\* the other instance is constructed from a stored file and then left alone
Caller == 1
Other == 2

NoItem == Rec(0, "", 0, 0)

\* a slot of ops holds one pending promise of buy or withdraw; a promise that
\* settles leaves its slot, and `last` tells how it settled.  `had` remembers
\* whether the removeItem of a withdraw found the item; `gone` is history no
\* callback reads: another withdraw of the same id has resolved meanwhile,
\* leaving no record of the id in the cache, and the platform has not handed
\* the id out since
IdleOp == [kind |-> "none", pc |-> "idle", name |-> "", item |-> NoItem, had |-> FALSE,
           gone |-> FALSE]

\* the pending promises once a withdraw of id has resolved with cache inv
withdrawn(pending, inv, id) ==
    [p \in DOMAIN pending |->
        IF /\ pending[p].pc = "withdraw"
           /\ pending[p].item.id = id
           /\ \A i \in 1..Len(inv) : inv[i].id # id
        THEN [pending[p] EXCEPT !.gone = TRUE]
        ELSE pending[p]]

\* the pending promises once the platform has handed out items with these ids
handedOut(pending, ids) ==
    [p \in DOMAIN pending |->
        IF pending[p].item.id \in ids
        THEN [pending[p] EXCEPT !.gone = FALSE]
        ELSE pending[p]]

Quiet == [act |-> "none", m |-> 0, o |-> 0, name |-> "", id |-> 0, had |-> FALSE,
          sales |-> <<>>, items |-> <<>>, pick |-> 0, saves |-> <<>>, calls |-> <<>>,
          outcome |-> "", err |-> "", result |-> NoItem]

\* the name the platform gives the item with a given id in a stored file
NameOf(id) == IF id % 2 = 1 THEN "A" ELSE "B"

\* the lists a file written by an earlier run of the program can hold: records
\* with distinct non-empty ids
WarmLists(m) ==
    { l \in SeqsUpTo({ Rec(i, NameOf(i), appID(m), contextID(m)) : i \in PlatformIds }, MaxList) :
        \A i, j \in 1..Len(l) : i # j => l[i].id # l[j].id }

Init ==
    /\ phase = [m \in Managers |-> "Uninitialized"]
    /\ inventory = [m \in Managers |-> <<>>]
    /\ protoOwner = 0
    /\ \E c \in {Absent} \cup { Stored(l) : l \in WarmLists(Caller) } :
          files = [f \in FileNames |-> IF f = inventoryFile(Caller) THEN c ELSE Stored(<<>>)]
    /\ ops = [o \in Ops |-> IdleOp]
    /\ fetches = [m \in Managers |-> 0]
    /\ last = Quiet

(* ----------------------------- construction ---------------------------- *)
\* what setInventory leaves in this.inventory and whether it asks the platform
\* (lines 112-118): a list read from the file is adopted as it is
adopted(got) == IF got.present THEN got.list ELSE <<>>

\* mutation of mustFetch: the platform is asked whatever was read
mustFetch_always(got) == TRUE

mustFetch(got) == ~got.present

\* new OpskinsManager({apiKey, appID, contextID}): setInventory installs the
\* methods, reads the file and either adopts it or asks the platform
Construct(m) ==
    /\ phase[m] = "Uninitialized"
    /\ protoOwner' = m
    /\ LET got == read(files, inventoryFile(m)) IN
         /\ inventory' = [inventory EXCEPT ![m] = adopted(got)]
         /\ phase' = [phase EXCEPT ![m] = IF mustFetch(got) THEN "Loading" ELSE "Ready"]
         /\ fetches' = [fetches EXCEPT ![m] = IF mustFetch(got) THEN @ + 1 ELSE @]
         /\ last' = [Quiet EXCEPT !.act = "construct", !.m = m,
                                  !.calls = IF mustFetch(got) THEN <<"getInventory">> ELSE <<>>]
    /\ UNCHANGED <<files, ops>>

\* mutation of replay: the loop ends after its first round
replay_firstOnly(inv, list) == IF list = <<>> THEN inv ELSE addItem(inv, Head(list))

\* the loop of lines 120-122: addItem for every key for-in visits
RECURSIVE replay(_, _)
replay(inv, list) ==
    IF list = <<>> THEN inv
    ELSE replay(addItem(inv, Head(list)), Tail(list))

\* one file name per push of that loop
RECURSIVE replaySaves(_, _, _)
replaySaves(owner, inv, list) ==
    IF list = <<>> THEN <<>>
    ELSE savesIf(owner, addItemPushes(inv, Head(list)))
            \o replaySaves(owner, addItem(inv, Head(list)), Tail(list))

\* the getInventory callback without error: the promise resolves with the items
FetchReplyOk(m, items) ==
    /\ phase[m] = "Loading"
    /\ LET inv == inventory[m]
           new == replay(inv, ForIn(items))
           written == replaySaves(protoOwner, inv, ForIn(items)) IN
         /\ inventory' = [inventory EXCEPT ![m] = new]
         /\ files' = saveIf(files, protoOwner, written # <<>>, new)
         /\ last' = [Quiet EXCEPT !.act = "fetchOk", !.m = m, !.items = items,
                                  !.saves = written]
    /\ phase' = [phase EXCEPT ![m] = "Ready"]
    /\ ops' = IF m = Caller THEN handedOut(ops, { items[i].id : i \in 1..Len(items) }) ELSE ops
    /\ UNCHANGED <<protoOwner, fetches>>

\* the getInventory callback with an error (lines 135-138): with a second
\* argument the promise rejects and the catch logs; without one the parameter
\* pattern { items } throws inside the callback
FetchReplyErr(m, hasData) ==
    /\ phase[m] = "Loading"
    /\ phase' = [phase EXCEPT ![m] = IF hasData THEN "Ready" ELSE "Threw"]
    /\ last' = [Quiet EXCEPT !.act = "fetchErr", !.m = m,
                             !.outcome = IF hasData THEN "rejected" ELSE "threw"]
    /\ UNCHANGED <<inventory, protoOwner, files, ops, fetches>>

(* ------------------------- direct cache calls -------------------------- *)
\* manager.inventory.addItem(item)
AddItemCall(m, item) ==
    /\ phase[m] # "Uninitialized"
    /\ LET inv == inventory[m]
           new == addItem(inv, item)
           pushed == new # inv IN
         /\ inventory' = [inventory EXCEPT ![m] = new]
         /\ files' = saveIf(files, protoOwner, pushed, new)
         /\ last' = [Quiet EXCEPT !.act = "addItem", !.m = m, !.id = item.id,
                                  !.saves = savesIf(protoOwner, pushed)]
    /\ UNCHANGED <<phase, protoOwner, ops, fetches>>

\* manager.inventory.removeItem(id)
RemoveItemCall(m, id) ==
    /\ phase[m] # "Uninitialized"
    /\ LET inv == inventory[m]
           new == removeItem(inv, id)
           spliced == new # inv IN
         /\ inventory' = [inventory EXCEPT ![m] = new]
         /\ files' = saveIf(files, protoOwner, spliced, new)
         /\ last' = [Quiet EXCEPT !.act = "removeItem", !.m = m, !.id = id,
                                  !.saves = savesIf(protoOwner, spliced)]
    /\ UNCHANGED <<phase, protoOwner, ops, fetches>>

(* --------------------------------- buy --------------------------------- *)
\* a new invocation takes the lowest free slot
FreeSlot(o) == ops[o].kind = "none" /\ \A p \in Ops : p < o => ops[p].kind # "none"

\* buy({name}) up to the search call (lines 151-169)
BuyCall(o, name) ==
    /\ FreeSlot(o)
    /\ phase[Caller] # "Uninitialized"
    /\ LET k == findByName(inventory[Caller], name) IN
         IF k # 0
         THEN /\ ops' = ops
              /\ last' = [Quiet EXCEPT !.act = "buy", !.m = Caller, !.o = o, !.name = name,
                                       !.outcome = "resolved",
                                       !.result = inventory[Caller][k]]
         ELSE /\ ops' = [ops EXCEPT ![o] = [IdleOp EXCEPT !.kind = "buy", !.name = name,
                                                          !.pc = "search"]]
              /\ last' = [Quiet EXCEPT !.act = "buy", !.m = Caller, !.o = o, !.name = name,
                                       !.calls = <<"search">>]
    /\ UNCHANGED <<phase, inventory, protoOwner, files, fetches>>

\* the names for-in visits over the search result: those of the listings, then
\* those of the four methods
visitedNames(sales) == [i \in 1..Len(ForIn(sales)) |->
                           IF i <= Len(sales) THEN sales[i] ELSE ProtoMethod.name]

\* the scan of lines 170-177: position (from 1) in the for-in order of the value
\* the scan stops at, 0 for null
itemToBuy(sales, name) ==
    LET visited == visitedNames(sales) IN
    IF \E i \in 1..Len(visited) : visited[i] = name
    THEN CHOOSE i \in 1..Len(visited) :
            /\ visited[i] = name
            /\ \A j \in 1..(i-1) : visited[j] # name
    ELSE 0

\* the search callback (lines 169-183); sales is the list of the listings' names
SearchReply(o, err, sales) ==
    /\ ops[o].pc = "search"
    /\ LET k == itemToBuy(sales, ops[o].name)
           said == [Quiet EXCEPT !.act = "searchReply", !.m = Caller, !.o = o,
                                 !.name = ops[o].name, !.sales = sales] IN
         IF err \/ k = 0
         THEN /\ ops' = [ops EXCEPT ![o] = IdleOp]
              /\ last' = [said EXCEPT !.outcome = "rejected",
                                      !.err = IF err THEN "search" ELSE "notfound"]
         ELSE /\ ops' = [ops EXCEPT ![o] = [@ EXCEPT !.pc = "purchase"]]
              /\ last' = [said EXCEPT !.pick = k, !.calls = <<"buyItems">>]
    /\ UNCHANGED <<phase, inventory, protoOwner, files, fetches>>

\* mutation of buyItemsDone: err is not looked at
buyItemsDone_ignoresErr(inv, err, item) == addItem(inv, item)

\* the array after the buyItems callback (lines 184-195)
buyItemsDone(inv, err, item) == IF err THEN inv ELSE addItem(inv, item)

\* the buyItems callback (lines 183-198); items is the purchase result
PurchaseReply(o, err, items) ==
    /\ ops[o].pc = "purchase"
    /\ LET said == [Quiet EXCEPT !.act = "purchaseReply", !.m = Caller, !.o = o,
                                 !.name = ops[o].name] IN
       IF ~err /\ items = <<>>
       THEN \* items[0] is undefined: reading new_itemid throws in the callback
            /\ ops' = [ops EXCEPT ![o] = [@ EXCEPT !.pc = "threw"]]
            /\ last' = [said EXCEPT !.outcome = "threw"]
            /\ UNCHANGED <<inventory, files>>
       ELSE LET item == IF items = <<>> THEN NoItem
                        ELSE Rec(items[1].id, items[1].name, appID(Caller), contextID(Caller))
                inv == inventory[Caller]
                new == buyItemsDone(inv, err, item)
                pushed == new # inv IN
              /\ inventory' = [inventory EXCEPT ![Caller] = new]
              /\ files' = saveIf(files, protoOwner, pushed, new)
              /\ ops' = [IF err THEN ops ELSE handedOut(ops, {item.id}) EXCEPT ![o] = IdleOp]
              /\ last' = IF err
                         THEN [said EXCEPT !.outcome = "rejected", !.err = "purchase",
                                           !.saves = savesIf(protoOwner, pushed)]
                         ELSE [said EXCEPT !.outcome = "resolved", !.result = item,
                                           !.id = item.id, !.items = items,
                                           !.saves = savesIf(protoOwner, pushed)]
    /\ UNCHANGED <<phase, protoOwner, fetches>>

(* ------------------------------- withdraw ------------------------------ *)
\* withdraw(item) up to the remote call (lines 208-212)
WithdrawCall(o, item) ==
    /\ FreeSlot(o)
    /\ phase[Caller] # "Uninitialized"
    /\ LET inv == inventory[Caller]
           new == removeItem(inv, item.id)
           spliced == new # inv IN
         /\ inventory' = [inventory EXCEPT ![Caller] = new]
         /\ files' = saveIf(files, protoOwner, spliced, new)
         /\ last' = [Quiet EXCEPT !.act = "withdraw", !.m = Caller, !.o = o,
                                  !.id = item.id, !.had = spliced,
                                  !.saves = savesIf(protoOwner, spliced),
                                  !.calls = <<"withdrawInventoryItems">>]
         /\ ops' = [ops EXCEPT ![o] = [IdleOp EXCEPT !.kind = "withdraw", !.item = item,
                                                     !.pc = "withdraw", !.had = spliced]]
    /\ UNCHANGED <<phase, protoOwner, fetches>>

\* mutation of withdrawDone: the item is not put back
withdrawDone_noCompensation(inv, err, item) == inv

\* the array after the withdrawInventoryItems callback (lines 213-216)
withdrawDone(inv, err, item) == IF err THEN addItem(inv, item) ELSE inv

\* the withdrawInventoryItems callback (lines 212-226); offers is the number of
\* offers in the reply
WithdrawReply(o, err, offers) ==
    /\ ops[o].pc = "withdraw"
    /\ LET inv == inventory[Caller]
           new == withdrawDone(inv, err, ops[o].item)
           pushed == new # inv
           said == [Quiet EXCEPT !.act = "withdrawReply", !.m = Caller, !.o = o,
                                 !.id = ops[o].item.id, !.had = ops[o].had,
                                 !.saves = savesIf(protoOwner, pushed)] IN
         /\ inventory' = [inventory EXCEPT ![Caller] = new]
         /\ files' = saveIf(files, protoOwner, pushed, new)
         /\ IF err
            THEN /\ ops' = [ops EXCEPT ![o] = IdleOp]
                 /\ last' = [said EXCEPT !.outcome = "rejected", !.err = "withdraw"]
            ELSE IF offers = 0
            THEN \* data.offers[0] is undefined: reading its items throws
                 /\ ops' = [ops EXCEPT ![o] = [@ EXCEPT !.pc = "threw"]]
                 /\ last' = [said EXCEPT !.outcome = "threw"]
            ELSE /\ ops' = [withdrawn(ops, new, ops[o].item.id) EXCEPT ![o] = IdleOp]
                 /\ last' = [said EXCEPT !.outcome = "resolved"]
    /\ UNCHANGED <<phase, protoOwner, fetches>>

(* ------------------------------ the system ----------------------------- *)
\* what the platform can answer and what the application can pass; the
\* platform's items carry the ids it assigned, and a purchase of one listing
\* answers with at most one item
FetchedItems(m) == { Raw(i, n, appID(m), contextID(m)) : i \in PlatformIds, n \in Names }
PurchaseResults == { Raw(i, n, 0, 0) : i \in PlatformIds, n \in Names }
CallerItems == { Rec(i, NameOf(i), appID(Caller), contextID(Caller)) : i \in Ids }
AddedItems == { Raw(i, n, appID(Caller), contextID(Caller)) : i \in Ids, n \in Names }

NextStartup ==
    \/ \E items \in SeqsUpTo(FetchedItems(Caller), MaxList) : FetchReplyOk(Caller, items)
    \/ \E hasData \in BOOLEAN : FetchReplyErr(Caller, hasData)

NextCalls ==
    \/ \E item \in AddedItems : AddItemCall(Caller, item)
    \/ \E id \in Ids : RemoveItemCall(Caller, id)

NextOps ==
    \/ \E o \in Ops : \E name \in RequestNames : BuyCall(o, name)
    \/ \E o \in Ops : \E err \in BOOLEAN : \E sales \in SeqsUpTo(Names, MaxList) :
          SearchReply(o, err, sales)
    \/ \E o \in Ops : \E err \in BOOLEAN : \E items \in SeqsUpTo(PurchaseResults, 1) :
          PurchaseReply(o, err, items)
    \/ \E o \in Ops : \E item \in CallerItems : WithdrawCall(o, item)
    \/ \E o \in Ops : \E err \in BOOLEAN : \E offers \in 0..1 : WithdrawReply(o, err, offers)

\* one instance, its startup and the buy and withdraw operations on it
Next ==
    \/ Construct(Caller)
    \/ NextStartup
    \/ NextOps

Spec == Init /\ [][Next]_vars

\* two instances in one process and the cache methods called on the first;
\* an instance constructed without a stored file is still waiting for the
\* platform's answer
NextCache ==
    \/ \E m \in Managers : Construct(m)
    \/ NextCalls

SpecCache == Init /\ [][NextCache]_vars

\* two instances in one process and buy and withdraw on the first, one
\* operation at a time
NextShared ==
    \/ \E m \in Managers : Construct(m)
    \/ \E name \in RequestNames : BuyCall(1, name)
    \/ \E err \in BOOLEAN : \E sales \in SeqsUpTo(Names, MaxList) : SearchReply(1, err, sales)
    \/ \E err \in BOOLEAN : \E items \in SeqsUpTo(PurchaseResults, 1) :
          PurchaseReply(1, err, items)
    \/ \E item \in CallerItems : WithdrawCall(1, item)
    \/ \E err \in BOOLEAN : \E offers \in 0..1 : WithdrawReply(1, err, offers)

SpecShared == Init /\ [][NextShared]_vars

(* ------------------------------ properties ----------------------------- *)
HasId(inv, id) == \E i \in 1..Len(inv) : inv[i].id = id
CountId(inv, id) == Cardinality({ i \in 1..Len(inv) : inv[i].id = id })
Constructed(m) == phase[m] # "Uninitialized"

\* C1: in every reachable state of any sequence of addItem and removeItem calls
\* (and of the startup replay) no cache holds two records with equal id, and
\* every record of a cache has a non-empty id.
C1_UniqueIds ==
    \A m \in Managers :
        /\ \A i, j \in 1..Len(inventory[m]) :
              i # j => inventory[m][i].id # inventory[m][j].id
        /\ \A i \in 1..Len(inventory[m]) : inventory[m][i].id \notin {0}

\* C1 witness: an addItem with a non-empty id that is already among the two
\* records of the cache has just run.
C1_Witness ==
    /\ last.act = "addItem"
    /\ last.id # 0
    /\ last.saves = <<>>
    /\ Len(inventory[Caller]) = 2

\* C6: an addItem whose id is already in the cache, or whose id is empty, leaves
\* the cache as it was (one record for that id, the original one, in its
\* place), leaves the files as they were and makes no save.
C6_AddItemIdempotent ==
    [][ ( /\ last'.act = "addItem"
          /\ (HasId(inventory[last'.m], last'.id) \/ last'.id = 0) )
        => ( /\ inventory' = inventory
             /\ files' = files
             /\ last'.saves = <<>>
             /\ (last'.id # 0 => CountId(inventory'[last'.m], last'.id) = 1) ) ]_vars

\* C6 witness: the second addItem of an id of a two-record cache has run.
C6_Witness ==
    /\ last.act = "addItem"
    /\ last.saves = <<>>
    /\ HasId(inventory[Caller], last.id)
    /\ Len(inventory[Caller]) = 2
    /\ inventory[Caller][1].id = last.id

\* C7: after every addItem or removeItem that changed the cache of a manager,
\* the file of that manager's key holds exactly the records of its cache, in
\* the same order.
C7_FileMirrorsCache ==
    (last.act \in {"addItem", "removeItem"} /\ last.saves # <<>>)
        => ( /\ files[inventoryFile(last.m)].present
             /\ files[inventoryFile(last.m)].list = inventory[last.m] )

\* C8: every save an addItem or removeItem on a manager's cache makes goes to
\* the file of that manager's own (apiKey, appID, contextID).
C8_KeyIsolation ==
    last.act \in {"addItem", "removeItem", "fetchOk"}
        => \A i \in 1..Len(last.saves) : last.saves[i] = inventoryFile(last.m)

\* C10: a constructor whose read returns a list leaves that list as the cache,
\* record for record, with the manager Ready and no getInventory call issued;
\* and no step after the construction issues one.
C10_WarmStartup ==
    [][ /\ \A m \in Managers :
              (last'.act = "construct" /\ last'.m = m /\ ~Constructed(m)
                  /\ read(files, inventoryFile(m)).present)
              => ( /\ inventory'[m] = read(files, inventoryFile(m)).list
                   /\ phase'[m] = "Ready"
                   /\ fetches'[m] = 0
                   /\ last'.calls = <<>> )
        /\ \A m \in Managers : Constructed(m) => fetches'[m] = fetches[m] ]_vars

\* C10 witness: a manager was constructed from a file of two records.
C10_Witness ==
    /\ last.act = "construct"
    /\ phase[last.m] = "Ready"
    /\ Len(inventory[last.m]) = 2
    /\ fetches[last.m] = 0

\* C2: when the withdrawal call of a withdraw that removed its item from the
\* cache fails, the cache holds a record with the item's id again once the
\* promise has rejected; and when the compensation had to push the record, the
\* same callback saved the whole cache once before it rejected.
C2_WithdrawCompensation ==
    [][ (last'.act = "withdrawReply" /\ last'.outcome = "rejected" /\ last'.had)
        => ( /\ HasId(inventory'[Caller], last'.id)
             /\ ~HasId(inventory[Caller], last'.id)
                   => ( /\ Len(last'.saves) = 1
                        /\ files'[last'.saves[1]] = Stored(inventory'[Caller]) ) ) ]_vars

\* C2 witness: a withdraw that had removed its item was rejected, and the
\* compensation pushed the item back and saved.
C2_Witness ==
    /\ last.act = "withdrawReply"
    /\ last.outcome = "rejected"
    /\ last.had
    /\ last.saves # <<>>
    /\ HasId(inventory[Caller], last.id)

\* C3: a buy invoked while the cache holds a record with the requested name
\* resolves to the first such record in insertion order, issues no remote call,
\* leaves no promise pending, and leaves the cache and the files unchanged.
C3_BuyShortCircuit ==
    [][ (last'.act = "buy" /\ \E i \in 1..Len(inventory[Caller]) :
                                 inventory[Caller][i].name = last'.name)
        => ( /\ \E k \in 1..Len(inventory[Caller]) :
                   /\ inventory[Caller][k].name = last'.name
                   /\ \A j \in 1..(k-1) : inventory[Caller][j].name # last'.name
                   /\ last'.result = inventory[Caller][k]
             /\ last'.outcome = "resolved"
             /\ last'.calls = <<>>
             /\ last'.saves = <<>>
             /\ ops' = ops
             /\ inventory' = inventory
             /\ files' = files ) ]_vars

\* C3 witness: a buy resolved from a cache holding two records with the
\* requested name, to the first of them.
C3_Witness ==
    /\ last.act = "buy"
    /\ last.outcome = "resolved"
    /\ Len(inventory[Caller]) = 2
    /\ inventory[Caller][1].name = last.name
    /\ inventory[Caller][2].name = last.name
    /\ last.result = inventory[Caller][1]

\* C4: no step of a buy that ends in a rejection (its invocation, its search
\* callback, its purchase callback with an error) changes the cache or a file,
\* or makes a save.
C4_BuyFailureFrame ==
    [][ ( \/ last'.act \in {"buy", "searchReply"}
          \/ (last'.act = "purchaseReply" /\ last'.outcome = "rejected") )
        => ( /\ inventory' = inventory
             /\ files' = files
             /\ last'.saves = <<>> ) ]_vars

\* C4 witness: a buy was rejected by a purchase error while the cache held a
\* record.
C4_Witness ==
    /\ last.act = "purchaseReply"
    /\ last.outcome = "rejected"
    /\ last.err = "purchase"
    /\ Len(inventory[Caller]) >= 1

\* C5: when the search returns a list without error, the listing handed to the
\* purchase call is the first one, in returned order, whose name equals the
\* requested name; when no listing has that name, no purchase call is issued
\* and the buy rejects with item-not-found.
C5_ExactMatchSelection ==
    (last.act = "searchReply" /\ last.err # "search")
        => IF \E i \in 1..Len(last.sales) : last.sales[i] = last.name
           THEN /\ last.pick \in 1..Len(last.sales)
                /\ last.sales[last.pick] = last.name
                /\ \A j \in 1..(last.pick - 1) : last.sales[j] # last.name
                /\ last.calls = <<"buyItems">>
           ELSE /\ last.calls = <<>>
                /\ last.outcome = "rejected"
                /\ last.err = "notfound"

\* the fetched items as cache records, each id kept at its first occurrence
DedupById(items) ==
    LET keep == { i \in 1..Len(items) : \A j \in 1..(i-1) : items[j].id # items[i].id }
        nth(k) == CHOOSE i \in keep : Cardinality({ j \in keep : j < i }) = k - 1
    IN  [k \in 1..Cardinality(keep) |->
            Rec(items[nth(k)].id, items[nth(k)].name,
                items[nth(k)].appid, items[nth(k)].contextid)]

\* C9 as stated: a manager constructed without a stored file issues one
\* getInventory call and never another, and when the fetch succeeds the cache
\* equals the fetched items deduplicated by id.
C9_Original ==
    /\ \A m \in Managers : fetches[m] <= 1
    /\ last.act = "fetchOk"
          => (fetches[last.m] = 1 /\ inventory[last.m] = DedupById(last.items))

\* C9 amended: a constructor whose read returns absent issues exactly one
\* getInventory call and no later step issues another; and when the fetch
\* succeeds while the cache is still empty, the cache becomes the fetched items
\* deduplicated by id, first occurrence kept, in fetched order.
C9_MissingFileStartup ==
    [][ /\ \A m \in Managers :
              (last'.act = "construct" /\ last'.m = m /\ ~Constructed(m)
                  /\ ~read(files, inventoryFile(m)).present)
              => (fetches'[m] = 1 /\ last'.calls = <<"getInventory">>)
        /\ \A m \in Managers : Constructed(m) => fetches'[m] = fetches[m]
        /\ \A m \in Managers :
              (last'.act = "fetchOk" /\ last'.m = m /\ phase[m] = "Loading"
                  /\ inventory[m] = <<>>)
              => (fetches'[m] = 1 /\ inventory'[m] = DedupById(last'.items)) ]_vars

\* C9 witness: the fetch returned two items with one id and different names,
\* and the cache holds the first of them only.
C9_Witness ==
    /\ last.act = "fetchOk"
    /\ Len(last.items) = 2
    /\ last.items[1].id = last.items[2].id
    /\ last.items[1].name # last.items[2].name
    /\ Len(inventory[last.m]) = 1
    /\ inventory[last.m][1].name = last.items[1].name
    /\ fetches[last.m] = 1

\* C11: when the getInventory call of a manager constructed without a stored
\* file answers with an error, the manager becomes Ready, the step changes
\* neither the cache nor a file, makes no save, and nothing is thrown out of
\* the callback.
C11_StartupFetchFailure ==
    [][ last'.act = "fetchErr"
        => ( /\ phase'[last'.m] = "Ready"
             /\ last'.outcome # "threw"
             /\ inventory' = inventory
             /\ files' = files
             /\ last'.saves = <<>> ) ]_vars

\* C12: once a withdraw of an id has resolved, leaving no record of the id in
\* the cache, no other withdraw of that id that was in flight puts a record
\* with the id back when it settles, unless the platform handed the id out
\* again in between.
C12_WithdrawnStaysGone ==
    [][ (last'.act = "withdrawReply" /\ ops[last'.o].gone)
        => ~HasId(inventory'[Caller], last'.id) ]_vars

\* C13: a buy that resolves from its purchase callback resolves to the record
\* {id and name of the purchase result, appID and contextID of the manager},
\* and at that moment the cache holds a record with that id and so does the
\* file of the manager's key.
C13_BuySuccess ==
    (last.act = "purchaseReply" /\ last.outcome = "resolved")
        => ( /\ last.result = Rec(last.items[1].id, last.items[1].name,
                                  appID(Caller), contextID(Caller))
             /\ HasId(inventory[Caller], last.result.id)
             /\ read(files, inventoryFile(Caller)).present
             /\ HasId(read(files, inventoryFile(Caller)).list, last.result.id) )

C15_WithdrawOrdering ==
    [][ last'.act = "withdraw"
        => ( /\ last'.calls = <<"withdrawInventoryItems">>
             /\ ops'[last'.o].pc = "withdraw"
             /\ ~HasId(inventory'[Caller], last'.id)
             /\ ~HasId(read(files', inventoryFile(Caller)).list, last'.id) ) ]_vars

\* C17: a buy issues at most one search call, and its one purchase call only
\* from a search callback that got no error and a listing of exactly the
\* requested name; a withdraw issues its one withdrawal call when it is
\* invoked; no callback issues a call again, and a callback that gets an error
\* rejects its promise with it and issues nothing.
C17_SequentialCalls ==
    [][ /\ last'.act = "buy" => last'.calls \in {<<>>, <<"search">>}
        /\ last'.act = "searchReply"
              => ( /\ ops[last'.o].pc = "search"
                   /\ last'.calls \in {<<>>, <<"buyItems">>}
                   /\ last'.calls = <<"buyItems">>
                         => ( /\ last'.err = ""
                              /\ \E i \in 1..Len(last'.sales) : last'.sales[i] = last'.name
                              /\ ops'[last'.o].pc = "purchase" ) )
        /\ last'.act = "withdraw" => last'.calls = <<"withdrawInventoryItems">>
        /\ last'.act \in {"purchaseReply", "withdrawReply"} => last'.calls = <<>>
        /\ last'.err \in {"search", "purchase", "withdraw"}
              => ( /\ last'.outcome = "rejected"
                   /\ last'.calls = <<>>
                   /\ ops'[last'.o] = IdleOp ) ]_vars

IdsOf(inv) == { inv[i].id : i \in 1..Len(inv) }

\* C18: when the withdrawal call of a withdraw fails with no other step between
\* the invocation and the callback, the ids of the cache after the rejection
\* are the ids the cache had when the withdraw was invoked: those left by the
\* invocation, and the item's id if the invocation had removed it.
C18_FailedWithdrawNeutral ==
    [][ ( /\ last.act = "withdraw"
          /\ last'.act = "withdrawReply"
          /\ last'.o = last.o
          /\ last'.outcome = "rejected" )
        => IdsOf(inventory'[Caller])
              = IdsOf(inventory[Caller]) \cup (IF last.had THEN {last.id} ELSE {}) ]_vars

HasName(inv, name) == \E i \in 1..Len(inv) : inv[i].name = name

C20_SettlesOnce ==
    [][ /\ last'.act \in {"searchReply", "purchaseReply", "withdrawReply"}
              => ( /\ ops[last'.o].kind # "none"
                   /\ ops[last'.o].pc \in {"search", "purchase", "withdraw"}
                   /\ last'.calls = <<>>
                         => ( /\ last'.outcome \in {"resolved", "rejected"}
                              /\ ops'[last'.o] = IdleOp ) )
        /\ (last'.act = "buy" /\ last'.calls = <<>>) => last'.outcome = "resolved" ]_vars

====
